---- MODULE Spec2Model ----
(***************************************************************************)
(* Session handling of the iZettle client (src/iZettle/iZettle.py):        *)
(* class Izettle with its token state, the auth() operation, the           *)
(* _authenticate_request and _response_handler decorators, and the remote  *)
(* servers (token endpoint, resource endpoints) as nondeterministic        *)
(* sources of HTTP responses.  Every blocking HTTP call is a wait point:   *)
(* the request is sent in one step and its response handled in the next,   *)
(* the clock may advance in between.                                       *)
(***************************************************************************)
EXTENDS Integers, Sequences, FiniteSets, TLC

\* ------------------------------------------------------------------ bounds
MaxTime == 4            \* the clock runs from 1 to MaxTime
LifetimeSpread == 1     \* declared lifetimes: SafetyMargin -/+ LifetimeSpread

\* ------------------------------------------------------- program constants
SafetyMargin == 60      \* "- 60" in auth()
StatusOK == 200
StatusBadRequest == 400
StatusUnauthorized == 401
StatusNotFound == 404

Sentinel == "ACCESS_TOKEN_EXPIRED"
AuthFailedMsg == <<"Failed to authenticate session">>
RequestErrorMsg(status) == <<"request error", status>>

\* ------------------------------------------------------------ value domains
None == "None"              \* Python None
Unset == "Unset"            \* attribute never assigned (self.__headers)
Threads == {1, 2}           \* callers that may use one manager
AccessTokens == {"a1", "a2"}
RefreshTokens == {"r1", "r2"}
Lifetimes == (SafetyMargin - LifetimeSpread)..(SafetyMargin + LifetimeSpread)
Requests == {"get_all_products", "create_product"}

\* An HTTP response: status code, body ("json": a JSON object with the keys
\* in `keys`; "text": non-empty, not JSON; "empty"), and the values of the keys
\* whose value matters.  A key that is absent has its default value.
GrantKeys == {"access_token", "refresh_token", "expires_in"}
ErrorKeys == {"developerMessage", "error_description", "error"}

Resp(status, body, keys, at, rt, ei, et, pl) ==
    [status |-> status, body |-> body, keys |-> keys, access_token |-> at,
     refresh_token |-> rt, expires_in |-> ei, errorType |-> et, payload |-> pl]

NoResponse == Resp(0, "empty", {}, "", "", 0, "", "")

\* what the token endpoint may answer
GrantResponses ==
    { Resp(StatusOK, "json", ks,
           IF "access_token" \in ks THEN at ELSE "",
           IF "refresh_token" \in ks THEN rt ELSE "",
           IF "expires_in" \in ks THEN ei ELSE 0, "", "") :
        ks \in SUBSET GrantKeys, at \in AccessTokens, rt \in RefreshTokens,
        ei \in Lifetimes }
    \cup { Resp(StatusOK, "text", {}, "", "", 0, "", "") }
    \cup { Resp(StatusBadRequest, "json", {"error_description", "error"},
                 "", "", 0, "", "") }
    \cup { Resp(StatusBadRequest, "text", {}, "", "", 0, "", "") }

\* what a resource endpoint may answer: a payload or {} with a success, an
\* errorType or none with a failure, and bodies that are no JSON at all
ResourceResponses ==
    { Resp(StatusOK, "json", ks, "", "", 0, "",
           IF "payload" \in ks THEN "p1" ELSE "") :
        ks \in SUBSET {"payload"} }
    \cup { Resp(st, "json", {"errorType"}, "", "", 0, et, "") :
             st \in {StatusOK, StatusUnauthorized, StatusNotFound},
             et \in {Sentinel, "OTHER"} }
    \cup { Resp(StatusUnauthorized, "json", {}, "", "", 0, "", "") }
    \cup { Resp(st, b, {}, "", "", 0, "", "") :
             st \in {StatusOK, StatusUnauthorized, StatusNotFound},
             b \in {"text", "empty"} }

\* 'k' in request.json()
Has(r, k) == r.body = "json" /\ k \in r.keys

\* requests.Response.ok
Ok(r) == r.status < 400

\* request.json() of a JSON body: the decoded dict
Decode(r) == [keys |-> r.keys, access_token |-> r.access_token,
              refresh_token |-> r.refresh_token, expires_in |-> r.expires_in,
              errorType |-> r.errorType, payload |-> r.payload]
EmptyDict == [keys |-> {}, access_token |-> "", refresh_token |-> "",
              expires_in |-> 0, errorType |-> "", payload |-> ""]

\* ------------------------------------------------------- outcomes of calls
Outcome(kind, msg, request, dm, value) ==
    [kind |-> kind, msg |-> msg, request |-> request, developer_message |-> dm,
     value |-> value]
NoOutcome == Outcome("none", <<>>, NoResponse, "", EmptyDict)
Returned(v) == Outcome("returned", <<>>, NoResponse, "", v)
Raised(kind) == Outcome(kind, <<>>, NoResponse, "", EmptyDict)

\* a variant of RequestException that looks for error before
\* error_description
RequestException_error_first(msg, request) ==
    Outcome("RequestException", msg, request,
            IF Has(request, "developerMessage") THEN "developerMessage"
            ELSE IF Has(request, "error") THEN "error"
            ELSE IF Has(request, "error_description") THEN "error_description"
            ELSE "",
            EmptyDict)

\* RequestException.__init__: msg, request and the diagnostic (the value of
\* a diagnostic field is written as the name of the field)
RequestException(msg, request) ==
    Outcome("RequestException", msg, request,
            IF Has(request, "developerMessage") THEN "developerMessage"
            ELSE IF Has(request, "error_description") THEN "error_description"
            ELSE IF Has(request, "error") THEN "error"
            ELSE "",
            EmptyDict)

\* ------------------------------------------------------------------- state
VARIABLES
    mgr,                  \* "new", "constructing", "ready", "failed"
    token,                \* self.__token
    refresh_token,        \* self.__refresh_token
    session_valid_until,  \* self.__session_valid_until
    headers,              \* bearer token of self.__headers, or Unset
    now,                  \* time.time()
    ctor_sent,            \* requests sent by __init__
    ctor_result,          \* outcome of __init__
    active,               \* the threads that use the manager
    pc,                   \* per thread: position in its current call
    req,                  \* per thread: the resource call in progress
    data,                 \* per thread: the dict the caller passed as data
    sent,                 \* per thread: requests sent by the current call
    result,               \* per thread: outcome of the last call
    call_obs,             \* per thread: time and expiry read by the pre-check
    first_resp,           \* per thread: the response to the first dispatch
    last_resp,            \* per thread: the last resource response received
    auth_obs,             \* the auth() body just run: its response, time, exception
    auth_time,            \* time.time() read by the last auth() that succeeded
    auth_lifetime,        \* expires_in of the grant that auth() stored
    auth_token,           \* access_token of the grant that auth() stored
    auth_exc,             \* how the last auth() ended: "none" (it returned),
                          \* "RequestException" or "other" (what it raised)
    exc_request,          \* a response handed to RequestException.__init__
    exc                   \* the exception object built from exc_request

vars == <<mgr, token, refresh_token, session_valid_until, headers, now,
          ctor_sent, ctor_result, active, pc, req, data, sent, result,
          call_obs, first_resp, last_resp, auth_obs, auth_time, auth_lifetime,
          auth_token, auth_exc, exc_request, exc>>

\* what RequestException.__init__ is given and what it builds
excvars == <<exc_request, exc>>

tokenvars == <<token, refresh_token, session_valid_until, headers>>

TokenState == [token |-> token, refresh_token |-> refresh_token,
               session_valid_until |-> session_valid_until, headers |-> headers]

\* ------------------------------------------------------------ sent requests
\* the credentials given to the constructor
user == "the user"
password == "the password"
client_id == "the client id"
client_secret == "the client secret"

\* Python values in the data of a POST: a str, and a tuple of strs
Str(x) == [type |-> "str", items |-> <<x>>]
Tuple(xs) == [type |-> "tuple", items |-> xs]

\* requests.post(url, data=data): the form that goes over the wire has one
\* key=value pair for a str value and one for every item of a tuple value
form_encode(d) ==
    UNION { { <<k, d[k].items[i]>> : i \in DOMAIN d[k].items } :
              k \in DOMAIN d }

\* a variant of auth_data that leaves the client credentials out of a
\* refresh grant
auth_data_no_client(gt, rt) ==
    IF gt = "refresh_token"
    THEN ("grant_type" :> Str(gt)) @@ ("refresh_token" :> Str(rt))
    ELSE ("grant_type" :> Str(gt)) @@ ("username" :> Str(user))
           @@ ("password" :> Str(password))
           @@ ("client_id" :> Tuple(<<client_id>>))
           @@ ("client_secret" :> Tuple(<<client_secret>>))

\* auth(), lines 435-447: the dict `data` of a grant of type gt; the two
\* client entries are assigned with a trailing comma and so are 1-tuples
auth_data(gt, rt) ==
    ( IF gt = "refresh_token"
      THEN ("grant_type" :> Str(gt)) @@ ("refresh_token" :> Str(rt))
      ELSE ("grant_type" :> Str(gt)) @@ ("username" :> Str(user))
             @@ ("password" :> Str(password)) )
    @@ ("client_id" :> Tuple(<<client_id>>))
    @@ ("client_secret" :> Tuple(<<client_secret>>))

\* uuid.uuid1(): a value made from the clock reading t and a sequence number
\* n that differs between the calls made at one clock reading
uuid1(t, n) == [time |-> t, seq |-> n]

\* a key that is not in the dict
NoUuid == [time |-> 0, seq |-> 0]
NoVat == ""

\* the dict a caller passes as data, by the entries the methods look at:
\* one that leaves the uuid, the variants and the vatPercentage to the
\* method; variant_uuid is the uuid of the one variant of [{}]
NoData == [uuid |-> NoUuid, variant_uuid |-> NoUuid, vatPercentage |-> NoVat]

\* a variant of create_product that generates the uuids at every run
create_product_regenerate(d, t, n) ==
    [uuid |-> uuid1(t, n), variant_uuid |-> uuid1(t, n + 1),
     vatPercentage |-> IF d.vatPercentage = NoVat THEN "0"
                       ELSE d.vatPercentage]

\* create_product, lines 206-217: the dict after the method body has run at
\* clock reading t with n the next sequence number; the entries are assigned
\* in the caller's dict
create_product(d, t, n) ==
    [uuid |-> IF d.uuid = NoUuid THEN uuid1(t, n) ELSE d.uuid,
     variant_uuid |-> IF d.variant_uuid = NoUuid THEN uuid1(t, n + 1)
                      ELSE d.variant_uuid,
     vatPercentage |-> IF d.vatPercentage = NoVat THEN "0"
                       ELSE d.vatPercentage]

\* __request, line 141: the wrapped method runs at every dispatch; the dict
\* it leaves behind
method_data(q, d, t, n) ==
    IF q = "create_product" THEN create_product(d, t, n) ELSE d

\* __request, lines 150-160: the verb is chosen by the prefix of the name
verb(q) == IF q = "create_product" THEN "POST" ELSE "GET"

\* both methods return Izettle.product_url.format('products')
url(q) == "products"

GrantRequest(gt, rt) ==
    [kind |-> "grant", grant_type |-> gt, refresh_token |-> rt, req |-> "",
     verb |-> "POST", url |-> "token",
     bearer |-> "", content_type |-> "application/x-www-form-urlencoded",
     form |-> form_encode(auth_data(gt, rt)), body |-> NoData]
ResourceRequest(q, h, d) ==
    [kind |-> "resource", grant_type |-> "", refresh_token |-> "", req |-> q,
     verb |-> verb(q), url |-> url(q),
     bearer |-> h, content_type |-> "application/json", form |-> {},
     body |-> d]

\* Python truthiness of a token field
Truthy(x) == x # None /\ x # ""

\* a variant of auth_request that never uses the stored refresh token
auth_request_password(rt) == GrantRequest("password", "")

\* auth(), up to requests.post: the grant built from the stored refresh token
auth_request(rt) ==
    IF Truthy(rt) THEN GrantRequest("refresh_token", rt)
    ELSE GrantRequest("password", "")

\* a variant of auth that goes on to read the body of a non-200 response
auth_no_status_check(st, r, t) ==
    IF r.body # "json"
    THEN [st |-> st, exc |-> Raised("ValueError")]
    ELSE IF ~Has(r, "access_token")
    THEN [st |-> st, exc |-> Raised("KeyError")]
    ELSE LET s1 == [st EXCEPT !.token = r.access_token] IN
    IF ~Has(r, "refresh_token")
    THEN [st |-> s1, exc |-> Raised("KeyError")]
    ELSE LET s2 == [s1 EXCEPT !.refresh_token = r.refresh_token] IN
    IF ~Has(r, "expires_in")
    THEN [st |-> s2, exc |-> Raised("KeyError")]
    ELSE [st |-> [s2 EXCEPT
                    !.session_valid_until = t + r.expires_in - SafetyMargin,
                    !.headers = s2.token],
          exc |-> NoOutcome]

\* a variant of auth that drops the stored access token when the grant is
\* refused
auth_clear_on_failure(st, r, t) ==
    IF r.status # StatusOK
    THEN [st |-> [st EXCEPT !.token = None],
          exc |-> RequestException(AuthFailedMsg, r)]
    ELSE IF r.body # "json"
    THEN [st |-> st, exc |-> Raised("ValueError")]
    ELSE IF ~Has(r, "access_token")
    THEN [st |-> st, exc |-> Raised("KeyError")]
    ELSE LET s1 == [st EXCEPT !.token = r.access_token] IN
    IF ~Has(r, "refresh_token")
    THEN [st |-> s1, exc |-> Raised("KeyError")]
    ELSE LET s2 == [s1 EXCEPT !.refresh_token = r.refresh_token] IN
    IF ~Has(r, "expires_in")
    THEN [st |-> s2, exc |-> Raised("KeyError")]
    ELSE [st |-> [s2 EXCEPT
                    !.session_valid_until = t + r.expires_in - SafetyMargin,
                    !.headers = s2.token],
          exc |-> NoOutcome]

\* a variant of auth that forgets the safety margin
auth_no_margin(st, r, t) ==
    IF r.status # StatusOK
    THEN [st |-> st, exc |-> RequestException(AuthFailedMsg, r)]
    ELSE IF r.body # "json"
    THEN [st |-> st, exc |-> Raised("ValueError")]
    ELSE IF ~Has(r, "access_token")
    THEN [st |-> st, exc |-> Raised("KeyError")]
    ELSE LET s1 == [st EXCEPT !.token = r.access_token] IN
    IF ~Has(r, "refresh_token")
    THEN [st |-> s1, exc |-> Raised("KeyError")]
    ELSE LET s2 == [s1 EXCEPT !.refresh_token = r.refresh_token] IN
    IF ~Has(r, "expires_in")
    THEN [st |-> s2, exc |-> Raised("KeyError")]
    ELSE [st |-> [s2 EXCEPT
                    !.session_valid_until = t + r.expires_in,
                    !.headers = s2.token],
          exc |-> NoOutcome]

\* a variant of auth that subtracts the declared lifetime instead of adding it
auth_lifetime_subtracted(st, r, t) ==
    IF r.status # StatusOK
    THEN [st |-> st, exc |-> RequestException(AuthFailedMsg, r)]
    ELSE IF r.body # "json"
    THEN [st |-> st, exc |-> Raised("ValueError")]
    ELSE IF ~Has(r, "access_token")
    THEN [st |-> st, exc |-> Raised("KeyError")]
    ELSE LET s1 == [st EXCEPT !.token = r.access_token] IN
    IF ~Has(r, "refresh_token")
    THEN [st |-> s1, exc |-> Raised("KeyError")]
    ELSE LET s2 == [s1 EXCEPT !.refresh_token = r.refresh_token] IN
    IF ~Has(r, "expires_in")
    THEN [st |-> s2, exc |-> Raised("KeyError")]
    ELSE [st |-> [s2 EXCEPT
                    !.session_valid_until = t - r.expires_in + SafetyMargin,
                    !.headers = s2.token],
          exc |-> NoOutcome]

\* a variant of auth that builds the headers from the token stored before
\* the grant
auth_stale_headers(st, r, t) ==
    IF r.status # StatusOK
    THEN [st |-> st, exc |-> RequestException(AuthFailedMsg, r)]
    ELSE IF r.body # "json"
    THEN [st |-> st, exc |-> Raised("ValueError")]
    ELSE IF ~Has(r, "access_token")
    THEN [st |-> st, exc |-> Raised("KeyError")]
    ELSE LET s1 == [st EXCEPT !.token = r.access_token] IN
    IF ~Has(r, "refresh_token")
    THEN [st |-> s1, exc |-> Raised("KeyError")]
    ELSE LET s2 == [s1 EXCEPT !.refresh_token = r.refresh_token] IN
    IF ~Has(r, "expires_in")
    THEN [st |-> s2, exc |-> Raised("KeyError")]
    ELSE [st |-> [s2 EXCEPT
                    !.session_valid_until = t + r.expires_in - SafetyMargin,
                    !.headers = IF st.token = None THEN s2.token
                                ELSE st.token],
          exc |-> NoOutcome]

\* a variant of auth that marks the session expired when the grant is refused
auth_expire_on_failure(st, r, t) ==
    IF r.status # StatusOK
    THEN [st |-> [st EXCEPT !.session_valid_until = 0],
          exc |-> RequestException(AuthFailedMsg, r)]
    ELSE IF r.body # "json"
    THEN [st |-> st, exc |-> Raised("ValueError")]
    ELSE IF ~Has(r, "access_token")
    THEN [st |-> st, exc |-> Raised("KeyError")]
    ELSE LET s1 == [st EXCEPT !.token = r.access_token] IN
    IF ~Has(r, "refresh_token")
    THEN [st |-> s1, exc |-> Raised("KeyError")]
    ELSE LET s2 == [s1 EXCEPT !.refresh_token = r.refresh_token] IN
    IF ~Has(r, "expires_in")
    THEN [st |-> s2, exc |-> Raised("KeyError")]
    ELSE [st |-> [s2 EXCEPT
                    !.session_valid_until = t + r.expires_in - SafetyMargin,
                    !.headers = s2.token],
          exc |-> NoOutcome]

\* a variant of auth that drops the request headers when the grant is refused
auth_drop_headers_on_failure(st, r, t) ==
    IF r.status # StatusOK
    THEN [st |-> [st EXCEPT !.headers = Unset],
          exc |-> RequestException(AuthFailedMsg, r)]
    ELSE IF r.body # "json"
    THEN [st |-> st, exc |-> Raised("ValueError")]
    ELSE IF ~Has(r, "access_token")
    THEN [st |-> st, exc |-> Raised("KeyError")]
    ELSE LET s1 == [st EXCEPT !.token = r.access_token] IN
    IF ~Has(r, "refresh_token")
    THEN [st |-> s1, exc |-> Raised("KeyError")]
    ELSE LET s2 == [s1 EXCEPT !.refresh_token = r.refresh_token] IN
    IF ~Has(r, "expires_in")
    THEN [st |-> s2, exc |-> Raised("KeyError")]
    ELSE [st |-> [s2 EXCEPT
                    !.session_valid_until = t + r.expires_in - SafetyMargin,
                    !.headers = s2.token],
          exc |-> NoOutcome]

\* a variant of auth that forgets the refresh token when the grant is refused
auth_forget_refresh_on_failure(st, r, t) ==
    IF r.status # StatusOK
    THEN [st |-> [st EXCEPT !.refresh_token = None],
          exc |-> RequestException(AuthFailedMsg, r)]
    ELSE IF r.body # "json"
    THEN [st |-> st, exc |-> Raised("ValueError")]
    ELSE IF ~Has(r, "access_token")
    THEN [st |-> st, exc |-> Raised("KeyError")]
    ELSE LET s1 == [st EXCEPT !.token = r.access_token] IN
    IF ~Has(r, "refresh_token")
    THEN [st |-> s1, exc |-> Raised("KeyError")]
    ELSE LET s2 == [s1 EXCEPT !.refresh_token = r.refresh_token] IN
    IF ~Has(r, "expires_in")
    THEN [st |-> s2, exc |-> Raised("KeyError")]
    ELSE [st |-> [s2 EXCEPT
                    !.session_valid_until = t + r.expires_in - SafetyMargin,
                    !.headers = s2.token],
          exc |-> NoOutcome]

\* auth(), from the response on: the statements in order, an exception
\* leaving the assignments made before it in place.
auth(st, r, t) ==
    IF r.status # StatusOK
    THEN [st |-> st, exc |-> RequestException(AuthFailedMsg, r)]
    ELSE IF r.body # "json"
    THEN [st |-> st, exc |-> Raised("ValueError")]
    ELSE IF ~Has(r, "access_token")
    THEN [st |-> st, exc |-> Raised("KeyError")]
    ELSE LET s1 == [st EXCEPT !.token = r.access_token] IN
    IF ~Has(r, "refresh_token")
    THEN [st |-> s1, exc |-> Raised("KeyError")]
    ELSE LET s2 == [s1 EXCEPT !.refresh_token = r.refresh_token] IN
    IF ~Has(r, "expires_in")
    THEN [st |-> s2, exc |-> Raised("KeyError")]
    ELSE [st |-> [s2 EXCEPT
                    !.session_valid_until = t + r.expires_in - SafetyMargin,
                    !.headers = s2.token],
          exc |-> NoOutcome]

\* a variant of response_handler that takes a body it cannot decode for an
\* empty one
response_handler_lenient(r) ==
    IF Ok(r)
    THEN IF r.body = "json" THEN Returned(Decode(r))
         ELSE Returned(EmptyDict)
    ELSE RequestException(RequestErrorMsg(r.status), r)

\* _response_handler, after the wrapped function returned response r
response_handler(r) ==
    IF Ok(r)
    THEN IF r.body # "empty"
         THEN IF r.body = "json" THEN Returned(Decode(r))
              ELSE Raised("ValueError")
         ELSE Returned(EmptyDict)
    ELSE RequestException(RequestErrorMsg(r.status), r)

NoObs == [grant |-> GrantRequest("", ""), resp |-> NoResponse, time |-> 0,
          exc |-> NoOutcome, ran |-> FALSE]

NoCallObs == [time |-> 0, expiry |-> 0]

\* the effect of running auth()'s body on the stored token state
RunAuth(g, r) ==
    LET a == auth(TokenState, r, now) IN
    /\ token' = a.st.token
    /\ refresh_token' = a.st.refresh_token
    /\ session_valid_until' = a.st.session_valid_until
    /\ headers' = a.st.headers
    /\ auth_obs' = [grant |-> g, resp |-> r, time |-> now, exc |-> a.exc,
                    ran |-> TRUE]
    /\ auth_time' = IF a.exc.kind = "none" THEN now ELSE auth_time
    /\ auth_lifetime' = IF a.exc.kind = "none" THEN r.expires_in
                        ELSE auth_lifetime
    /\ auth_token' = IF a.exc.kind = "none" THEN r.access_token
                     ELSE auth_token
    /\ auth_exc' = IF a.exc.kind \in {"none", "RequestException"}
                   THEN a.exc.kind ELSE "other"
    /\ UNCHANGED excvars

\* --------------------------------------------------------------------- Init
InitWith(ts) ==
    /\ mgr = "new"
    /\ token = None
    /\ refresh_token = None
    /\ session_valid_until = 0
    /\ headers = Unset
    /\ now = 1
    /\ ctor_sent = <<>>
    /\ ctor_result = NoOutcome
    /\ active = ts
    /\ pc = [c \in Threads |-> "idle"]
    /\ req = [c \in Threads |-> ""]
    /\ data = [c \in Threads |-> NoData]
    /\ sent = [c \in Threads |-> <<>>]
    /\ result = [c \in Threads |-> NoOutcome]
    /\ call_obs = [c \in Threads |-> NoCallObs]
    /\ first_resp = [c \in Threads |-> NoResponse]
    /\ last_resp = [c \in Threads |-> NoResponse]
    /\ auth_obs = NoObs
    /\ auth_time = 0
    /\ auth_lifetime = 0
    /\ auth_token = ""
    /\ auth_exc = "none"

Init ==
    /\ InitWith({1})
    /\ exc_request = NoResponse
    /\ exc = NoOutcome

\* ------------------------------------------------------------------ actions
\* time passes
Tick ==
    /\ now < MaxTime
    /\ now' = now + 1
    /\ UNCHANGED <<mgr, tokenvars, ctor_sent, ctor_result, active, pc, req,
                   sent, result, call_obs, first_resp, last_resp, auth_obs,
                   auth_time, auth_lifetime,
                   auth_token, auth_exc, excvars, data>>

\* Izettle.__init__ up to the POST of auth()
Construct ==
    /\ mgr = "new"
    /\ mgr' = "constructing"
    /\ ctor_sent' = Append(ctor_sent, auth_request(refresh_token))
    /\ UNCHANGED <<tokenvars, now, ctor_result, active, pc, req, sent, result,
                   call_obs, first_resp, last_resp, auth_obs, auth_time, auth_lifetime,
                   auth_token, auth_exc, excvars, data>>

\* Izettle.__init__ from the grant response on
ConstructReply ==
    /\ mgr = "constructing"
    /\ \E r \in GrantResponses :
         LET a == auth(TokenState, r, now) IN
         /\ RunAuth(ctor_sent[Len(ctor_sent)], r)
         /\ mgr' = IF a.exc.kind = "none" THEN "ready" ELSE "failed"
         /\ ctor_result' = IF a.exc.kind = "none" THEN Returned(EmptyDict)
                           ELSE a.exc
    /\ UNCHANGED <<now, ctor_sent, active, pc, req, sent, result, call_obs,
                   first_resp, last_resp, data>>

\* a variant of session_expired with the comparison turned round
session_expired_inverted(valid_until, t) == valid_until > t

\* _authenticate_request, line 88: does the pre-check re-authorize?
session_expired(valid_until, t) == valid_until < t

\* a variant of after_response that retries on every 401 with an errorType
after_response_any_401(r) ==
    IF r.status = StatusUnauthorized
    THEN IF r.body # "json" THEN "ValueError"
         ELSE IF ~Has(r, "errorType") THEN "KeyError"
         ELSE "reauth"
    ELSE "return"

\* a variant of after_response that hands every 401 to the caller
after_response_never_reauth(r) ==
    IF r.status = StatusUnauthorized
    THEN IF r.body # "json" THEN "ValueError"
         ELSE IF ~Has(r, "errorType") THEN "KeyError"
         ELSE "return"
    ELSE "return"

\* _authenticate_request, lines 96-103: what follows the first response
after_response(r) ==
    IF r.status = StatusUnauthorized
    THEN IF r.body # "json" THEN "ValueError"
         ELSE IF ~Has(r, "errorType") THEN "KeyError"
         ELSE IF r.errorType = Sentinel THEN "reauth"
         ELSE "return"
    ELSE "return"

\* a variant of final_response that keeps the first response
final_response_first(first, second) == first

\* _authenticate_request, lines 101-103: the response that is returned
\* after a second dispatch
final_response(first, second) == second

\* the end of a call of thread c with outcome o
Finish(c, o) ==
    /\ result' = [result EXCEPT ![c] = o]
    /\ pc' = [pc EXCEPT ![c] = "done"]

\* __request in thread c: the method q runs on the caller's dict d, and the
\* request goes out after the requests s of the call with the bearer h; the
\* uuid1() calls of this run get sequence numbers that no earlier run had
Dispatch(c, q, h, d, s) ==
    LET m == method_data(q, d, now, 2 * Len(s) + 1) IN
    /\ data' = [data EXCEPT ![c] = m]
    /\ sent' = [sent EXCEPT ![c] = Append(s, ResourceRequest(q, h, m))]

\* a guarded resource call (any method under combined_decorator) starts:
\* the pre-check, then either the POST of auth() or the first dispatch
Call(c) ==
    /\ mgr = "ready" /\ c \in active /\ pc[c] = "idle"
    /\ \E q \in Requests :
       LET d == NoData IN
         /\ req' = [req EXCEPT ![c] = q]
         /\ IF session_expired(session_valid_until, now)
            THEN /\ sent' = [sent EXCEPT ![c] = <<auth_request(refresh_token)>>]
                 /\ data' = [data EXCEPT ![c] = d]
                 /\ pc' = [pc EXCEPT ![c] = "pre_auth"]
            ELSE /\ Dispatch(c, q, headers, d, <<>>)
                 /\ pc' = [pc EXCEPT ![c] = "dispatched"]
    /\ call_obs' = [call_obs EXCEPT ![c] =
                      [time |-> now, expiry |-> session_valid_until]]
    /\ result' = [result EXCEPT ![c] = NoOutcome]
    /\ first_resp' = [first_resp EXCEPT ![c] = NoResponse]
    /\ last_resp' = [last_resp EXCEPT ![c] = NoResponse]
    /\ auth_obs' = NoObs
    /\ UNCHANGED <<mgr, tokenvars, now, ctor_sent, ctor_result, active,
                   auth_time, auth_lifetime,
                   auth_token, auth_exc, excvars>>

\* a variant of PreAuthReply that dispatches the request although auth()
\* has raised
PreAuthReply_dispatch_anyway(c) ==
    /\ pc[c] = "pre_auth"
    /\ \E r \in GrantResponses :
         LET a == auth(TokenState, r, now) IN
         /\ RunAuth(sent[c][Len(sent[c])], r)
         /\ Dispatch(c, req[c], a.st.headers, data[c], sent[c])
         /\ IF a.exc.kind = "none"
            THEN /\ pc' = [pc EXCEPT ![c] = "dispatched"]
                 /\ UNCHANGED result
            ELSE Finish(c, a.exc)
    /\ UNCHANGED <<mgr, now, ctor_sent, ctor_result, active, req, call_obs,
                   first_resp, last_resp>>

\* the pre-check's auth() gets its response; on success the first dispatch
PreAuthReply(c) ==
    /\ pc[c] = "pre_auth"
    /\ \E r \in GrantResponses :
         LET a == auth(TokenState, r, now) IN
         /\ RunAuth(sent[c][Len(sent[c])], r)
         /\ IF a.exc.kind = "none"
            THEN /\ Dispatch(c, req[c], a.st.headers, data[c], sent[c])
                 /\ pc' = [pc EXCEPT ![c] = "dispatched"]
                 /\ UNCHANGED result
            ELSE /\ Finish(c, a.exc)
                 /\ UNCHANGED <<sent, data>>
    /\ UNCHANGED <<mgr, now, ctor_sent, ctor_result, active, req, call_obs,
                   first_resp, last_resp>>

\* the first dispatch gets its response
Response(c) ==
    /\ pc[c] = "dispatched"
    /\ \E r \in ResourceResponses :
         /\ first_resp' = [first_resp EXCEPT ![c] = r]
         /\ last_resp' = [last_resp EXCEPT ![c] = r]
         /\ IF after_response(r) = "reauth"
            THEN /\ sent' = [sent EXCEPT ![c] =
                               Append(@, auth_request(refresh_token))]
                 /\ pc' = [pc EXCEPT ![c] = "re_auth"]
                 /\ UNCHANGED result
            ELSE /\ IF after_response(r) = "return"
                    THEN Finish(c, response_handler(r))
                    ELSE Finish(c, Raised(after_response(r)))
                 /\ UNCHANGED sent
    /\ auth_obs' = NoObs
    /\ UNCHANGED <<mgr, tokenvars, now, ctor_sent, ctor_result, active, req,
                   call_obs, auth_time, auth_lifetime,
                   auth_token, auth_exc, excvars, data>>

\* the auth() after a 401 with the sentinel gets its response; on success
\* the request is dispatched again
ReAuthReply(c) ==
    /\ pc[c] = "re_auth"
    /\ \E r \in GrantResponses :
         LET a == auth(TokenState, r, now) IN
         /\ RunAuth(sent[c][Len(sent[c])], r)
         /\ IF a.exc.kind = "none"
            THEN /\ Dispatch(c, req[c], a.st.headers, data[c], sent[c])
                 /\ pc' = [pc EXCEPT ![c] = "redispatched"]
                 /\ UNCHANGED result
            ELSE /\ Finish(c, a.exc)
                 /\ UNCHANGED <<sent, data>>
    /\ UNCHANGED <<mgr, now, ctor_sent, ctor_result, active, req, call_obs,
                   first_resp, last_resp>>

\* a variant of Response2 that marks the session expired when the second
\* response is a 401 again
Response2_expire_on_401(c) ==
    /\ pc[c] = "redispatched"
    /\ \E r \in ResourceResponses :
         /\ last_resp' = [last_resp EXCEPT ![c] = r]
         /\ Finish(c, response_handler(final_response(first_resp[c], r)))
         /\ session_valid_until' =
               IF r.status = StatusUnauthorized THEN 0 ELSE session_valid_until
    /\ auth_obs' = NoObs
    /\ UNCHANGED <<mgr, token, refresh_token, headers, now, ctor_sent,
                   ctor_result, active, req, sent, call_obs, first_resp,
                   auth_time, auth_lifetime, auth_token, auth_exc,
                   excvars, data>>

\* a variant of Response2 that authenticates and dispatches once more when
\* the second response is a 401 with the sentinel again
Response2_reauth_again(c) ==
    /\ pc[c] = "redispatched"
    /\ \E r \in ResourceResponses :
         /\ last_resp' = [last_resp EXCEPT ![c] = r]
         /\ IF after_response(r) = "reauth"
            THEN /\ sent' = [sent EXCEPT ![c] =
                               Append(@, auth_request(refresh_token))]
                 /\ pc' = [pc EXCEPT ![c] = "re_auth"]
                 /\ UNCHANGED result
            ELSE /\ Finish(c, response_handler(final_response(first_resp[c], r)))
                 /\ UNCHANGED sent
    /\ auth_obs' = NoObs
    /\ UNCHANGED <<mgr, tokenvars, now, ctor_sent, ctor_result, active, req,
                   call_obs, first_resp, auth_time, auth_lifetime,
                   auth_token, auth_exc, excvars, data>>

\* the second dispatch gets its response, which goes to _response_handler
Response2(c) ==
    /\ pc[c] = "redispatched"
    /\ \E r \in ResourceResponses :
         /\ last_resp' = [last_resp EXCEPT ![c] = r]
         /\ Finish(c, response_handler(final_response(first_resp[c], r)))
    /\ auth_obs' = NoObs
    /\ UNCHANGED <<mgr, tokenvars, now, ctor_sent, ctor_result, active, req,
                   sent, call_obs, first_resp, auth_time, auth_lifetime,
                   auth_token, auth_exc, excvars, data>>

\* a direct call of the public auth(), up to its POST
AuthCall(c) ==
    /\ mgr = "ready" /\ c \in active /\ pc[c] = "idle"
    /\ req' = [req EXCEPT ![c] = "auth"]
    /\ data' = [data EXCEPT ![c] = NoData]
    /\ sent' = [sent EXCEPT ![c] = <<auth_request(refresh_token)>>]
    /\ pc' = [pc EXCEPT ![c] = "pub_auth"]
    /\ call_obs' = [call_obs EXCEPT ![c] =
                      [time |-> now, expiry |-> session_valid_until]]
    /\ result' = [result EXCEPT ![c] = NoOutcome]
    /\ first_resp' = [first_resp EXCEPT ![c] = NoResponse]
    /\ last_resp' = [last_resp EXCEPT ![c] = NoResponse]
    /\ auth_obs' = NoObs
    /\ UNCHANGED <<mgr, tokenvars, now, ctor_sent, ctor_result, active,
                   auth_time, auth_lifetime,
                   auth_token, auth_exc, excvars>>

\* the public auth() gets its response; its return value goes through
\* _response_handler
AuthReply(c) ==
    /\ pc[c] = "pub_auth"
    /\ \E r \in GrantResponses :
         LET a == auth(TokenState, r, now) IN
         /\ RunAuth(sent[c][Len(sent[c])], r)
         /\ Finish(c, IF a.exc.kind = "none" THEN response_handler(r)
                      ELSE a.exc)
    /\ UNCHANGED <<mgr, now, ctor_sent, ctor_result, active, req, sent,
                   call_obs, first_resp, last_resp, data>>

\* a variant of on_transport_error that sends the failed request again
on_transport_error_retry(s) == Append(s, s[Len(s)])

\* the requests of a call once requests.post/get/put/delete has raised
\* (ConnectionError, Timeout): no handler catches it, nothing more is sent
on_transport_error(s) == s

\* the transport raises while thread c waits for a response: the exception
\* leaves auth(), the decorators and the call
TransportError(c) ==
    /\ pc[c] \in {"pre_auth", "dispatched", "re_auth", "redispatched",
                  "pub_auth"}
    /\ Finish(c, Raised("TransportError"))
    /\ sent' = [sent EXCEPT ![c] = on_transport_error(@)]
    /\ auth_obs' = NoObs
    /\ auth_exc' = IF pc[c] \in {"pre_auth", "re_auth", "pub_auth"}
                   THEN "other" ELSE auth_exc
    /\ UNCHANGED <<mgr, tokenvars, now, ctor_sent, ctor_result, active, req,
                   call_obs, first_resp, last_resp, auth_time, auth_lifetime,
                   auth_token, excvars, data>>

\* the transport raises while Izettle.__init__ waits for its grant
ConstructTransportError ==
    /\ mgr = "constructing"
    /\ mgr' = "failed"
    /\ ctor_result' = Raised("TransportError")
    /\ ctor_sent' = on_transport_error(ctor_sent)
    /\ auth_exc' = "other"
    /\ UNCHANGED <<tokenvars, now, active, pc, req, sent, result, call_obs,
                   first_resp, last_resp, auth_obs, auth_time, auth_lifetime,
                   auth_token, excvars, data>>

\* a variant of Return in which a call that raised leaves its thread, and so
\* the manager, unusable
Return_after_success_only(c) ==
    /\ pc[c] = "done" /\ result[c].kind = "returned"
    /\ pc' = [pc EXCEPT ![c] = "idle"]
    /\ req' = [req EXCEPT ![c] = ""]
    /\ data' = [data EXCEPT ![c] = NoData]
    /\ sent' = [sent EXCEPT ![c] = <<>>]
    /\ result' = [result EXCEPT ![c] = NoOutcome]
    /\ call_obs' = [call_obs EXCEPT ![c] = NoCallObs]
    /\ first_resp' = [first_resp EXCEPT ![c] = NoResponse]
    /\ last_resp' = [last_resp EXCEPT ![c] = NoResponse]
    /\ auth_obs' = NoObs
    /\ UNCHANGED <<mgr, tokenvars, now, ctor_sent, ctor_result, active,
                   auth_time, auth_lifetime, auth_token, auth_exc,
                   excvars>>

\* the caller has taken the outcome of its call; the thread is free again
Return(c) ==
    /\ pc[c] = "done"
    /\ pc' = [pc EXCEPT ![c] = "idle"]
    /\ req' = [req EXCEPT ![c] = ""]
    /\ data' = [data EXCEPT ![c] = NoData]
    /\ sent' = [sent EXCEPT ![c] = <<>>]
    /\ result' = [result EXCEPT ![c] = NoOutcome]
    /\ call_obs' = [call_obs EXCEPT ![c] = NoCallObs]
    /\ first_resp' = [first_resp EXCEPT ![c] = NoResponse]
    /\ last_resp' = [last_resp EXCEPT ![c] = NoResponse]
    /\ auth_obs' = NoObs
    /\ UNCHANGED <<mgr, tokenvars, now, ctor_sent, ctor_result, active,
                   auth_time, auth_lifetime,
                   auth_token, auth_exc, excvars>>

Next ==
    \/ Tick
    \/ Construct
    \/ ConstructReply
    \/ \E c \in Threads : Call(c)
    \/ \E c \in Threads : PreAuthReply(c)
    \/ \E c \in Threads : Response(c)
    \/ \E c \in Threads : ReAuthReply(c)
    \/ \E c \in Threads : Response2(c)
    \/ \E c \in Threads : AuthCall(c)
    \/ \E c \in Threads : AuthReply(c)
    \/ \E c \in Threads : Return(c)
    \/ \E c \in Threads : TransportError(c)
    \/ ConstructTransportError

Spec == Init /\ [][Next]_vars

\* ------------------------------------------- two callers on one manager
\* the grant that the constructor stored: tokens a1 and r1, a lifetime equal
\* to the margin
FirstGrant ==
    Resp(StatusOK, "json", GrantKeys, "a1", "r1", SafetyMargin, "", "")

\* a manager constructed at time 1 whose session has expired at time 2, and
\* two threads that are about to use it
InitConcurrent ==
    /\ mgr = "ready"
    /\ token = "a1"
    /\ refresh_token = "r1"
    /\ session_valid_until = 1
    /\ headers = "a1"
    /\ now = 2
    /\ ctor_sent = <<GrantRequest("password", "")>>
    /\ ctor_result = Returned(EmptyDict)
    /\ active = {1, 2}
    /\ pc = [c \in Threads |-> "idle"]
    /\ req = [c \in Threads |-> ""]
    /\ data = [c \in Threads |-> NoData]
    /\ sent = [c \in Threads |-> <<>>]
    /\ result = [c \in Threads |-> NoOutcome]
    /\ call_obs = [c \in Threads |-> NoCallObs]
    /\ first_resp = [c \in Threads |-> NoResponse]
    /\ last_resp = [c \in Threads |-> NoResponse]
    /\ auth_obs = [grant |-> GrantRequest("password", ""), resp |-> FirstGrant,
                   time |-> 1, exc |-> NoOutcome, ran |-> TRUE]
    /\ auth_time = 1
    /\ auth_lifetime = SafetyMargin
    /\ auth_token = "a1"
    /\ auth_exc = "none"
    /\ exc_request = NoResponse
    /\ exc = NoOutcome

\* each thread makes one resource call, followed up to its first dispatch;
\* the steps of the two calls interleave at the wait points, nothing in the
\* code serializes them
NextConcurrent ==
    \/ Tick
    \/ \E c \in Threads : Call(c)
    \/ \E c \in Threads : PreAuthReply(c)
    \/ \E c \in Threads : TransportError(c)

SpecConcurrent == InitConcurrent /\ [][NextConcurrent]_vars

\* ------------------------------------- RequestException on its own
\* the responses an exception may be built from: a failure status and a JSON
\* object with any of the diagnostic fields and errorType, or a body that is
\* no JSON
ExcResponses ==
    { Resp(st, "json", ks, "", "", 0,
           IF "errorType" \in ks THEN "OTHER" ELSE "", "") :
        st \in {StatusBadRequest, StatusUnauthorized, StatusNotFound},
        ks \in SUBSET (ErrorKeys \cup {"errorType"}) }
    \cup { Resp(st, b, {}, "", "", 0, "", "") :
             st \in {StatusBadRequest, StatusUnauthorized, StatusNotFound},
             b \in {"text", "empty"} }

InitExc ==
    /\ InitWith({})
    /\ exc_request \in ExcResponses
    /\ exc = NoOutcome

\* raise RequestException(msg, exc_request), with either message of the code
Raise ==
    /\ exc.kind = "none"
    /\ \E msg \in {AuthFailedMsg, RequestErrorMsg(exc_request.status)} :
         exc' = RequestException(msg, exc_request)
    /\ UNCHANGED <<mgr, tokenvars, now, ctor_sent, ctor_result, active, pc,
                   req, sent, result, call_obs, first_resp, last_resp,
                   auth_obs, auth_time, auth_lifetime, auth_token, auth_exc,
                   data, exc_request>>

NextExc == Raise

SpecExc == InitExc /\ [][NextExc]_vars

\* ------------------------------------------------- vocabulary of the claims
Grants(s) == {i \in DOMAIN s : s[i].kind = "grant"}
Resources(s) == {i \in DOMAIN s : s[i].kind = "resource"}

\* thread c is in, or has just finished, a guarded resource call
InResourceCall(c) == req[c] \in Requests

\* the position of the first dispatch among the requests sent (0: none yet)
FirstDispatch(s) ==
    IF Resources(s) = {} THEN 0
    ELSE CHOOSE i \in Resources(s) : \A j \in Resources(s) : i <= j

GrantsAfterFirstDispatch(s) == {i \in Grants(s) : i > FirstDispatch(s)}

\* the first dispatch of c's call was answered 401 with the expiry sentinel
SentinelFirst(c) ==
    /\ InResourceCall(c)
    /\ first_resp[c].status = StatusUnauthorized
    /\ Has(first_resp[c], "errorType")
    /\ first_resp[c].errorType = Sentinel

\* the auth() run just before this state raised
AuthJustFailed == auth_obs.ran /\ auth_obs.exc.kind # "none"

\* the caller of c gets the request error made from response r
GetsRequestError(c, r) ==
    /\ result[c].kind = "RequestException"
    /\ result[c].msg = RequestErrorMsg(r.status)
    /\ result[c].request = r

\* ----------------------------------------------------------------------- C1
\* C1 as stated: after a first dispatch answered 401 with the sentinel the
\* call has made exactly one authenticate and exactly one re-dispatch of the
\* same request, and a failing second response is what the caller gets.
\* (Stated for the calls in which no auth() ended in KeyError or ValueError
\* and the transport raised nothing, so that what refutes it is a grant the
\* token endpoint refused.)
C1_AsStated ==
    \A c \in Threads :
        ( /\ pc[c] = "done" /\ SentinelFirst(c)
          /\ auth_obs.exc.kind \notin {"KeyError", "ValueError"}
          /\ result[c].kind # "TransportError" ) =>
            /\ Cardinality(GrantsAfterFirstDispatch(sent[c])) = 1
            /\ Cardinality(Resources(sent[c])) = 2
            /\ sent[c][Len(sent[c])].kind = "resource"
            /\ sent[c][Len(sent[c])].req = sent[c][FirstDispatch(sent[c])].req
            /\ (~Ok(last_resp[c]) => GetsRequestError(c, last_resp[c]))

\* C1 as amended: exactly one authenticate follows the 401 with the
\* sentinel; when it fails the call ends with its exception and nothing is
\* dispatched again; when it succeeds the same request is dispatched exactly
\* once more, directly after the grant, and a failing second response is what
\* the caller gets.  (A call that the transport ended sent nothing after the
\* request that got no response.)
C1_RetryOnce ==
    \A c \in Threads :
        (pc[c] = "done" /\ SentinelFirst(c)) =>
            LET s == sent[c]
                k == FirstDispatch(s)
            IN  /\ Cardinality(GrantsAfterFirstDispatch(s)) = 1
                /\ s[k + 1].kind = "grant"
                /\ IF AuthJustFailed
                   THEN /\ Cardinality(Resources(s)) = 1
                        /\ Len(s) = k + 1
                        /\ result[c] = auth_obs.exc
                   ELSE IF result[c].kind = "TransportError"
                   THEN /\ Len(s) \in {k + 1, k + 2}
                        /\ (Len(s) = k + 2 =>
                               s[k + 2].kind = "resource"
                                 /\ s[k + 2].req = s[k].req)
                   ELSE /\ Cardinality(Resources(s)) = 2
                        /\ Len(s) = k + 2
                        /\ s[k + 2].kind = "resource"
                        /\ s[k + 2].req = s[k].req
                        /\ (~Ok(last_resp[c]) =>
                               GetsRequestError(c, last_resp[c]))
                        /\ (Ok(last_resp[c]) =>
                               result[c].kind # "RequestException")

\* a call has ended whose first dispatch was answered 401 with the sentinel
\* and whose second dispatch was answered 404: the caller has the 404
C1_Witness ==
    \E c \in Threads :
        /\ pc[c] = "done" /\ SentinelFirst(c)
        /\ Cardinality(Resources(sent[c])) = 2
        /\ last_resp[c].status = StatusNotFound
        /\ GetsRequestError(c, last_resp[c])
        /\ result[c].request # first_resp[c]

\* ----------------------------------------------------------------------- C2
\* C2: a first dispatch answered 401 with an errorType other than the
\* sentinel is followed by no authenticate and no re-dispatch, and the caller
\* gets the request error carrying that 401 response.
C2_Other401NoRetry ==
    \A c \in Threads :
        ( /\ pc[c] = "done" /\ InResourceCall(c)
          /\ first_resp[c].status = StatusUnauthorized
          /\ Has(first_resp[c], "errorType")
          /\ first_resp[c].errorType # Sentinel ) =>
            /\ GrantsAfterFirstDispatch(sent[c]) = {}
            /\ Cardinality(Resources(sent[c])) = 1
            /\ sent[c][Len(sent[c])].kind = "resource"
            /\ GetsRequestError(c, first_resp[c])
            /\ result[c].request.status = StatusUnauthorized

C2_Witness ==
    \E c \in Threads :
        /\ pc[c] = "done" /\ InResourceCall(c)
        /\ first_resp[c].status = StatusUnauthorized
        /\ Has(first_resp[c], "errorType")
        /\ first_resp[c].errorType = "OTHER"
        /\ result[c].kind = "RequestException"

\* ----------------------------------------------------------------------- C3
\* the pre-check of c's call read a time before the stored expiry instant
CalledBeforeExpiry(c) ==
    InResourceCall(c) /\ call_obs[c].time < call_obs[c].expiry

\* C3 as stated: a resource call made before the stored expiry instant sends
\* no token-grant request.
C3_AsStated ==
    \A c \in Threads : CalledBeforeExpiry(c) => Grants(sent[c]) = {}

\* C3 as amended: a resource call made before the stored expiry instant
\* starts with the resource request (the pre-check sends no grant), and sends
\* a grant only after its first dispatch was answered 401 with the sentinel,
\* and then one only.
C3_FreshNoPreAuth ==
    \A c \in Threads :
        CalledBeforeExpiry(c) =>
            /\ sent[c][1].kind = "resource"
            /\ Cardinality(Grants(sent[c])) <= 1
            /\ (Grants(sent[c]) # {} => SentinelFirst(c))

C3_Witness ==
    \E c \in Threads :
        /\ CalledBeforeExpiry(c) /\ pc[c] = "done"
        /\ sent[c] = <<ResourceRequest(req[c], headers, data[c])>>
        /\ result[c].kind = "returned"

\* ----------------------------------------------------------------------- C4
\* the pre-check of c's call read a time after the stored expiry instant
CalledAfterExpiry(c) ==
    InResourceCall(c) /\ call_obs[c].expiry < call_obs[c].time

\* C4: a resource call made after the stored expiry instant sends one grant
\* request, a refresh grant, before its resource request: the first request
\* sent is a refresh grant and the first dispatch, if any, is the second.
C4_ExpiredOneRefresh ==
    \A c \in Threads :
        CalledAfterExpiry(c) =>
            /\ sent[c][1].kind = "grant"
            /\ sent[c][1].grant_type = "refresh_token"
            /\ sent[c][1].refresh_token \in RefreshTokens
            /\ (Resources(sent[c]) # {} => FirstDispatch(sent[c]) = 2)

C4_Witness ==
    \E c \in Threads :
        /\ CalledAfterExpiry(c) /\ pc[c] = "done"
        /\ Len(sent[c]) = 2
        /\ sent[c][1].grant_type = "refresh_token"
        /\ sent[c][2].kind = "resource"
        /\ result[c].kind = "returned"

\* ----------------------------------------------------------------------- C5
\* C5: when the grant sent by the constructor is answered with a non-200
\* status, the constructor raises RequestException("Failed to authenticate
\* session") whose attached response is that answer, and the manager never
\* dispatches a resource request.
C5_ConstructionFails ==
    (mgr \in {"ready", "failed"} /\ ctor_sent # <<>> /\ auth_obs.ran
        /\ auth_obs.grant.grant_type = "password"
        /\ auth_obs.resp.status # StatusOK) =>
        /\ mgr = "failed"
        /\ ctor_result.kind = "RequestException"
        /\ ctor_result.msg = AuthFailedMsg
        /\ ctor_result.request = auth_obs.resp
        /\ ctor_result.request.status = auth_obs.resp.status
        /\ Resources(ctor_sent) = {}
        /\ \A c \in Threads : sent[c] = <<>> /\ pc[c] = "idle"

C5_Witness ==
    /\ mgr = "failed"
    /\ ctor_result.kind = "RequestException"
    /\ ctor_result.request.status = StatusBadRequest
    /\ ctor_result.developer_message = "error_description"

\* ----------------------------------------------------------------------- C6
\* C6: the constructor sends exactly one token-grant request, a password
\* grant, and nothing else; no thread sends anything before the constructor
\* has returned; and a constructed manager holds an access token in every
\* later state.
C6_ConstructedAuthenticated ==
    /\ (mgr # "new" => ctor_sent = <<GrantRequest("password", "")>>)
    /\ (mgr # "ready" => \A c \in Threads : sent[c] = <<>>)
    /\ (mgr = "ready" => token # None /\ token \in AccessTokens)

\* a constructed manager after an auth() of a later call was refused
C6_Witness ==
    /\ mgr = "ready"
    /\ \E c \in Threads : pc[c] = "done" /\ result[c].msg = AuthFailedMsg
    /\ token \in AccessTokens

\* ----------------------------------------------------------------------- C7
\* C7: an auth() whose response has a non-200 status, or has status 200 and a
\* JSON body without the access_token field, raises RequestException carrying
\* that response.
C7_AuthFailureKind ==
    ( /\ auth_obs.ran
      /\ \/ auth_obs.resp.status # StatusOK
         \/ (auth_obs.resp.body = "json"
               /\ ~Has(auth_obs.resp, "access_token")) ) =>
        /\ auth_obs.exc.kind = "RequestException"
        /\ auth_obs.exc.request = auth_obs.resp

\* ----------------------------------------------------------------------- C8
\* a step in which the body of auth() ran on a constructed manager
AuthStep == mgr = "ready" /\ auth_obs'.ran /\ pc' # pc

\* the token state that auth() derives from response r read at time t
Derived(r, t) ==
    [token |-> r.access_token, refresh_token |-> r.refresh_token,
     session_valid_until |-> t + r.expires_in - SafetyMargin,
     headers |-> r.access_token]

\* C8: every run of auth() on a constructed manager leaves the four stored values either all as they
\* were or all as derived from the grant response.
C8_AuthAtomic ==
    [][ AuthStep =>
          \/ TokenState' = TokenState
          \/ /\ GrantKeys \subseteq auth_obs'.resp.keys
             /\ TokenState' = Derived(auth_obs'.resp, auth_obs'.time) ]_vars

\* ----------------------------------------------------------------------- C9
\* no token has been stored
TokenEmpty == token = None /\ refresh_token = None

\* the manager exists (its constructor has not raised)
Alive == mgr \in {"new", "constructing", "ready"}

\* C9 as stated: the token state is empty, or the access token is non-empty
\* and the expiry instant is later than the time read by the last auth() that
\* succeeded.
C9_AsStated ==
    Alive => \/ TokenEmpty
             \/ (token \in AccessTokens /\ session_valid_until > auth_time)

\* C9 as amended: the token state is empty, or the access token is non-empty
\* and the expiry instant is later than the time read by the last auth() that
\* succeeded whenever the lifetime that grant declared exceeds the 60 second
\* margin, and is not later than it otherwise.
C9_ExpiryAfterAuth ==
    Alive => \/ TokenEmpty
             \/ /\ token \in AccessTokens
                /\ (auth_lifetime > SafetyMargin =>
                       session_valid_until > auth_time)
                /\ (auth_lifetime <= SafetyMargin =>
                       session_valid_until <= auth_time)

\* a constructed manager whose token was refreshed by a later call with a
\* lifetime above the margin, the clock having passed the new expiry instant
C9_Witness ==
    /\ mgr = "ready"
    /\ auth_lifetime > SafetyMargin
    /\ auth_time > 1
    /\ session_valid_until > auth_time
    /\ now > session_valid_until

\* ---------------------------------------------------------------------- C10
\* the auth() that just ran sent a refresh grant and the server accepted it
RefreshAccepted ==
    /\ mgr = "ready" /\ auth_obs.ran
    /\ auth_obs.grant.grant_type = "refresh_token"
    /\ auth_obs.exc.kind = "none"

\* C10 as stated: an accepted refresh grant sets the expiry instant to the
\* time auth() read + the declared lifetime - 60, and that is later than the
\* time auth() read.
C10_AsStated ==
    RefreshAccepted =>
        /\ session_valid_until =
              auth_obs.time + auth_obs.resp.expires_in - SafetyMargin
        /\ session_valid_until > auth_obs.time

\* C10 as amended: an accepted refresh grant sets the expiry instant to the
\* time auth() read + the declared lifetime - 60, and that is later than the
\* time auth() read exactly when the declared lifetime exceeds 60 seconds.
C10_RefreshExpiry ==
    RefreshAccepted =>
        /\ session_valid_until =
              auth_obs.time + auth_obs.resp.expires_in - SafetyMargin
        /\ (session_valid_until > auth_obs.time
              <=> auth_obs.resp.expires_in > SafetyMargin)

C10_Witness ==
    /\ RefreshAccepted
    /\ auth_obs.resp.expires_in > SafetyMargin
    /\ auth_obs.time > 1
    /\ session_valid_until > auth_obs.time

\* ---------------------------------------------------------------------- C11
\* the form of a grant request posted while refresh token rt is stored
ExpectedGrantForm(rt) ==
    IF rt \in RefreshTokens
    THEN { <<"grant_type", "refresh_token">>, <<"refresh_token", rt>>,
           <<"client_id", client_id>>, <<"client_secret", client_secret>> }
    ELSE { <<"grant_type", "password">>, <<"username", user>>,
           <<"password", password>>,
           <<"client_id", client_id>>, <<"client_secret", client_secret>> }

\* thread c waits for the answer to the POST of an auth()
AwaitsGrant(c) == pc[c] \in {"pre_auth", "re_auth", "pub_auth"}

\* C11: every auth() has sent exactly one POST when it waits for the answer:
\* the last request sent is a grant, the one before it (if any) is not, and
\* its form is a refresh_token grant with the stored refresh token when one
\* is held and a password grant with username and password otherwise, in
\* both cases with the client identifier and the client secret.
C11_OneGrantPost ==
    /\ mgr = "constructing" =>
          /\ Len(ctor_sent) = 1
          /\ ctor_sent[1].kind = "grant"
          /\ ctor_sent[1].form = ExpectedGrantForm(refresh_token)
    /\ \A c \in Threads :
          AwaitsGrant(c) =>
            LET s == sent[c]
                g == s[Len(s)]
            IN  /\ g.kind = "grant"
                /\ g.form = ExpectedGrantForm(refresh_token)
                /\ (pc[c] \in {"pre_auth", "pub_auth"} => Len(s) = 1)
                /\ (pc[c] = "re_auth" => s[Len(s) - 1].kind = "resource")

\* a re-authentication after a 401 waits for the answer to a refresh grant
\* that carries a rotated refresh token and the client credentials
C11_Witness ==
    \E c \in Threads :
        /\ pc[c] = "re_auth"
        /\ <<"refresh_token", "r2">> \in sent[c][Len(sent[c])].form
        /\ <<"client_secret", client_secret>> \in sent[c][Len(sent[c])].form

\* ---------------------------------------------------------------------- C12
\* c's resource call has sent its first request and no more, and waits for
\* the answer: no auth() has ended since the call began
FirstRequestOut(c) ==
    /\ InResourceCall(c) /\ Len(sent[c]) = 1
    /\ pc[c] \in {"pre_auth", "dispatched"}

\* C12 as stated: a resource call that follows an authenticate refused by the
\* token endpoint authenticates before it dispatches anything.
C12_AsStated ==
    \A c \in Threads :
        (FirstRequestOut(c) /\ auth_exc = "RequestException") =>
            sent[c][1].kind = "grant"

\* C12 as amended: a resource call that follows a failed authenticate finds
\* the expiry instant stored by the last authenticate that succeeded; it
\* authenticates first when that instant has passed, and otherwise dispatches
\* at once with the access token stored by that authenticate.
C12_FailedAuthKeepsToken ==
    \A c \in Threads :
        (FirstRequestOut(c) /\ auth_exc # "none") =>
            LET e == auth_time + auth_lifetime - SafetyMargin IN
            /\ call_obs[c].expiry = e
            /\ IF e < call_obs[c].time
               THEN sent[c][1].kind = "grant"
               ELSE sent[c][1] = ResourceRequest(req[c], auth_token, data[c])

\* a call made after a refused authenticate and before the stored expiry
\* instant has dispatched at once, with the token of the last grant accepted
C12_Witness ==
    \E c \in Threads :
        /\ FirstRequestOut(c) /\ auth_exc = "RequestException"
        /\ call_obs[c].time < call_obs[c].expiry
        /\ sent[c] = <<ResourceRequest(req[c], auth_token, data[c])>>

\* ---------------------------------------------------------------------- C13
\* c's call was made before the stored expiry instant, its first dispatch was
\* answered 401 with the sentinel, and neither the authenticate that followed
\* nor the transport raised
EarlyExpiryReauthorized(c) ==
    /\ pc[c] = "done" /\ CalledBeforeExpiry(c) /\ SentinelFirst(c)
    /\ ~AuthJustFailed /\ result[c].kind # "TransportError"

\* C13: such a call has dispatched a second time, and when the second
\* response is a success with a JSON body or with no body the caller has the
\* decoded second body (an empty dict for no body) and no error.
C13_EarlyExpiryRecovered ==
    \A c \in Threads :
        EarlyExpiryReauthorized(c) =>
            /\ Cardinality(Resources(sent[c])) = 2
            /\ ( (last_resp[c].status = StatusOK /\ last_resp[c].body = "json")
                    => result[c] = Returned(Decode(last_resp[c])) )
            /\ ( (last_resp[c].status = StatusOK /\ last_resp[c].body = "empty")
                    => result[c] = Returned(EmptyDict) )

\* the caller has the payload of the second response
C13_Witness ==
    \E c \in Threads :
        /\ EarlyExpiryReauthorized(c)
        /\ last_resp[c].status = StatusOK
        /\ last_resp[c].payload = "p1"
        /\ result[c].kind = "returned"
        /\ result[c].value.payload = "p1"

\* ---------------------------------------------------------------------- C14
\* the diagnostic fields in the order in which the claim ranks them
DiagnosticOrder == <<"developerMessage", "error_description", "error">>

\* the ranks of the diagnostic fields present in the body of r
Present(r) ==
    {i \in DOMAIN DiagnosticOrder :
        r.body = "json" /\ DiagnosticOrder[i] \in r.keys}

\* C14: the developer_message of a raised RequestException is the value of
\* the first field of developerMessage, error_description, error that the
\* body of its response has, and the empty string when the body has none of
\* them or is no JSON.
C14_DiagnosticOrder ==
    exc.kind = "RequestException" =>
        /\ exc.request = exc_request
        /\ exc.developer_message =
              IF Present(exc_request) = {} THEN ""
              ELSE DiagnosticOrder[
                     CHOOSE i \in Present(exc_request) :
                        \A j \in Present(exc_request) : i <= j]

\* an OAuth error body with error_description and error
C14_Witness ==
    /\ exc.kind = "RequestException"
    /\ exc_request.body = "json"
    /\ exc_request.keys = {"error_description", "error"}
    /\ exc.developer_message = "error_description"

\* ---------------------------------------------------------------------- C15
\* c's resource call has ended on a response: the last thing that happened
\* in it is neither an authenticate that raised nor a transport failure
EndedOnResponse(c) ==
    /\ pc[c] = "done" /\ InResourceCall(c)
    /\ last_resp[c] # NoResponse
    /\ ~AuthJustFailed /\ result[c].kind # "TransportError"

\* a 2xx status
Is2xx(r) == 200 <= r.status /\ r.status < 300

\* C15: the result of a resource call is determined by its final response: a
\* 2xx response with a JSON body gives the decoded body, a 2xx response with
\* an empty body gives an empty dict, and any other status raises
\* RequestException with msg "request error <status>" carrying that response.
C15_FinalResponseOnly ==
    \A c \in Threads :
        EndedOnResponse(c) =>
            LET r == last_resp[c] IN
            /\ (Is2xx(r) /\ r.body = "json" => result[c] = Returned(Decode(r)))
            /\ (Is2xx(r) /\ r.body = "empty" => result[c] = Returned(EmptyDict))
            /\ (~Is2xx(r) =>
                   /\ GetsRequestError(c, r)
                   /\ result[c].request.status = r.status)

\* ---------------------------------------------------------------------- C16
\* C16: in every step after which a call (or the constructor) has ended with
\* the exception of the transport, the caller has that exception and the
\* step has sent nothing: the request that got no response is the last one
\* of the call.  And a call dispatches a second time only after a first
\* response of 401 with the sentinel.
C16_TransportNotRetried ==
    [][ /\ \A c \in Threads :
             result'[c].kind = "TransportError" =>
                 /\ pc'[c] = "done"
                 /\ sent'[c] # <<>>
                 /\ sent'[c] = sent[c]
        /\ ctor_result'.kind = "TransportError" =>
                 /\ mgr' = "failed"
                 /\ ctor_sent' # <<>>
                 /\ ctor_sent' = ctor_sent
        /\ \A c \in Threads :
             Cardinality(Resources(sent'[c])) >= 2 =>
                 /\ Cardinality(Resources(sent'[c])) = 2
                 /\ first_resp'[c].status = StatusUnauthorized
                 /\ Has(first_resp'[c], "errorType")
                 /\ first_resp'[c].errorType = Sentinel ]_vars

\* a call has ended with the exception of the transport raised by its
\* second dispatch
C16_Witness ==
    \E c \in Threads :
        /\ pc[c] = "done" /\ result[c].kind = "TransportError"
        /\ Cardinality(Resources(sent[c])) = 2
        /\ sent[c][Len(sent[c])].kind = "resource"

\* ---------------------------------------------------------------------- C17
\* C17: a resource call whose pre-check reads a time greater than or equal to
\* the stored expiry instant authenticates before it dispatches: the first
\* request it sends is a grant.
C17_PreCheckAtExpiry ==
    \A c \in Threads :
        (InResourceCall(c) /\ call_obs[c].time >= call_obs[c].expiry) =>
            sent[c][1].kind = "grant"

\* ---------------------------------------------------------------------- C18
\* thread c waits for the answer to a resource request
AwaitsResource(c) == pc[c] \in {"dispatched", "redispatched"}

\* C18: a resource request handed to the transport carries the access token
\* of the last grant that auth() stored as its bearer token, and the JSON
\* content type; a request dispatched right after an authenticate of the same
\* call carries the token of that authenticate's grant.
C18_BearerOfLatestGrant ==
    \A c \in Threads :
        AwaitsResource(c) =>
            LET q == sent[c][Len(sent[c])] IN
            /\ q.kind = "resource"
            /\ auth_token \in AccessTokens
            /\ q.bearer = auth_token
            /\ q.content_type = "application/json"
            /\ (Len(sent[c]) > 1 =>
                   /\ sent[c][Len(sent[c]) - 1].kind = "grant"
                   /\ auth_obs.ran /\ auth_obs.exc.kind = "none"
                   /\ q.bearer = auth_obs.resp.access_token)

\* a re-dispatch after a 401 carries a token other than the first dispatch
C18_Witness ==
    \E c \in Threads :
        /\ pc[c] = "redispatched"
        /\ sent[c][Len(sent[c])].bearer = "a2"
        /\ sent[c][FirstDispatch(sent[c])].bearer = "a1"

\* ---------------------------------------------------------------------- C19
\* a step in which an auth() ends: the constructor or a thread leaves the
\* wait for the answer to a grant
AuthEnds ==
    \/ mgr = "constructing" /\ mgr' # mgr
    \/ \E c \in Threads : AwaitsGrant(c) /\ pc'[c] # pc[c]

\* C19: every step other than the end of an auth() (the pre-check, a
\* dispatch, the decoding of a response, the raising of an error, the return
\* to the caller) leaves access token, refresh token and expiry instant as
\* they were.
C19_OnlyAuthChangesTokens ==
    [][ ~AuthEnds =>
          /\ token' = token
          /\ refresh_token' = refresh_token
          /\ session_valid_until' = session_valid_until ]_vars

\* a call that dispatched twice and raised the request error of a 401 has
\* left the token state as the last grant stored it
C19_Witness ==
    \E c \in Threads :
        /\ pc[c] = "done" /\ InResourceCall(c)
        /\ Cardinality(Resources(sent[c])) = 2
        /\ last_resp[c].status = StatusUnauthorized
        /\ GetsRequestError(c, last_resp[c])
        /\ token = auth_token
        /\ session_valid_until = auth_time + auth_lifetime - SafetyMargin

\* ---------------------------------------------------------------------- C20
\* C20: two callers of one manager do not both find the same stored expiry
\* instant passed and both send a refresh grant for it.
C20_NoDuplicateRefresh ==
    \A c1, c2 \in Threads :
        ( /\ c1 # c2
          /\ CalledAfterExpiry(c1) /\ CalledAfterExpiry(c2)
          /\ call_obs[c1].expiry = call_obs[c2].expiry ) =>
            ~( /\ sent[c1][1].kind = "grant"
               /\ sent[c1][1].grant_type = "refresh_token"
               /\ sent[c2][1].kind = "grant"
               /\ sent[c2][1].grant_type = "refresh_token" )

\* ---------------------------------------------------------------------- C21
\* a step in which thread c receives a 2xx response whose body is not empty
\* and is no JSON
GetsUndecodable(c) ==
    /\ AwaitsResource(c) /\ pc'[c] # pc[c]
    /\ last_resp'[c] # last_resp[c]
    /\ Is2xx(last_resp'[c]) /\ last_resp'[c].body = "text"

\* C21: the step in which a resource call receives a 2xx response with a
\* non-empty body that is no JSON ends the call with ValueError (neither a
\* RequestException nor a result), sends nothing, and leaves the token state
\* as it was.
C21_UndecodableSuccess ==
    [][ \A c \in Threads :
          GetsUndecodable(c) =>
              /\ pc'[c] = "done"
              /\ result'[c] = Raised("ValueError")
              /\ result'[c].kind \notin {"RequestException", "returned"}
              /\ sent'[c] = sent[c]
              /\ TokenState' = TokenState ]_vars

\* the answer to a second dispatch was such a response
C21_Witness ==
    \E c \in Threads :
        /\ pc[c] = "done" /\ InResourceCall(c)
        /\ Cardinality(Resources(sent[c])) = 2
        /\ Is2xx(last_resp[c]) /\ last_resp[c].body = "text"
        /\ result[c].kind = "ValueError"

\* ---------------------------------------------------------------------- C22
\* every request of c's finished resource call was accepted: the call sent
\* one resource request, no authenticate of it and no transport raised, and
\* the response was a 2xx with a JSON body or none
AcceptedThroughout(c) ==
    /\ pc[c] = "done" /\ InResourceCall(c)
    /\ ~AuthJustFailed /\ result[c].kind # "TransportError"
    /\ Cardinality(Resources(sent[c])) = 1
    /\ Is2xx(last_resp[c]) /\ last_resp[c].body \in {"json", "empty"}

\* C22: whatever has happened before (an authentication error or a request
\* error included), a constructed manager accepts the next call of a thread
\* that has taken the outcome of its last one, every outcome can be taken,
\* the call follows the protocol (at most one grant, then the dispatch), and
\* a call all of whose requests the server accepted has returned a result.
C22_NoTerminalState ==
    \A c \in active :
        /\ (pc[c] = "done" => ENABLED Return(c))
        /\ ((mgr = "ready" /\ pc[c] = "idle") => ENABLED Call(c))
        /\ (AcceptedThroughout(c) =>
               /\ result[c].kind = "returned"
               /\ Len(sent[c]) \in {1, 2}
               /\ sent[c][Len(sent[c])].kind = "resource"
               /\ (Len(sent[c]) = 2 =>
                      sent[c][1].kind = "grant"
                        /\ call_obs[c].expiry < call_obs[c].time))

\* a call made after an authenticate was refused, without an authenticate of
\* its own, has returned a result
C22_Witness ==
    \E c \in Threads :
        /\ AcceptedThroughout(c)
        /\ auth_exc = "RequestException"
        /\ Len(sent[c]) = 1
        /\ result[c].kind = "returned"

\* ---------------------------------------------------------------------- C23
\* C23: a call of the public auth() that succeeds returns an empty dict.
C23_AuthReturnsEmptyDict ==
    \A c \in Threads :
        (pc[c] = "done" /\ req[c] = "auth" /\ result[c].kind = "returned") =>
            result[c].value = EmptyDict

\* ---------------------------------------------------------------------- C24
\* an authenticate of c's resource call has just raised
AuthFailedInCall(c) == pc[c] = "done" /\ InResourceCall(c) /\ AuthJustFailed

\* C24: when an authenticate of a resource call has raised, the caller has
\* its exception, and the grant of that authenticate is the last request of
\* the call: it is the first request (pre-check) or the one after the first
\* dispatch (401 with the sentinel), and neither a dispatch nor another grant
\* follows it.
C24_AuthFailureSurfaced ==
    \A c \in Threads :
        AuthFailedInCall(c) =>
            LET s == sent[c] IN
            /\ result[c] = auth_obs.exc
            /\ result[c].kind \notin {"none", "returned"}
            /\ s[Len(s)].kind = "grant"
            /\ s[Len(s)] = auth_obs.grant
            /\ IF Resources(s) = {}
               THEN Len(s) = 1 /\ call_obs[c].expiry < call_obs[c].time
               ELSE /\ Len(s) = FirstDispatch(s) + 1
                    /\ Cardinality(Resources(s)) = 1
                    /\ SentinelFirst(c)

\* the authenticate after a 401 with the sentinel was refused, the one of
\* the pre-check of the same call had been accepted
C24_Witness ==
    \E c \in Threads :
        /\ AuthFailedInCall(c) /\ SentinelFirst(c)
        /\ Len(sent[c]) = 3
        /\ result[c].kind = "RequestException"
        /\ result[c].msg = AuthFailedMsg

\* ---------------------------------------------------------------------- C25
\* C25: a first dispatch answered 401 with a body that has no errorType (no
\* JSON at all, or a JSON object without the field) is followed by no
\* authenticate and no re-dispatch, and the caller gets the request error
\* carrying that 401 response.
C25_UntypedUnauthorized ==
    \A c \in Threads :
        ( /\ pc[c] = "done" /\ InResourceCall(c)
          /\ first_resp[c].status = StatusUnauthorized
          /\ ~Has(first_resp[c], "errorType") ) =>
            /\ GrantsAfterFirstDispatch(sent[c]) = {}
            /\ Cardinality(Resources(sent[c])) = 1
            /\ GetsRequestError(c, first_resp[c])
            /\ result[c].request.status = StatusUnauthorized

\* ---------------------------------------------------------------------- C26
\* the request of the second dispatch of c's call is out
Redispatched(c) ==
    InResourceCall(c) /\ Cardinality(Resources(sent[c])) = 2

\* the requests of the first and of the second dispatch
FirstAttempt(c) == sent[c][FirstDispatch(sent[c])]
Retry(c) == sent[c][Len(sent[c])]

\* C26: the request dispatched again after a 401 with the sentinel has the
\* verb, the URL and the JSON body of the first dispatch; the uuid, the
\* variant uuid and the vatPercentage that create_product filled in for the
\* first dispatch are the ones of the second.
C26_RetrySameRequest ==
    \A c \in Threads :
        Redispatched(c) =>
            /\ Retry(c).kind = "resource"
            /\ Retry(c).req = FirstAttempt(c).req
            /\ Retry(c).verb = FirstAttempt(c).verb
            /\ Retry(c).url = FirstAttempt(c).url
            /\ Retry(c).content_type = FirstAttempt(c).content_type
            /\ Retry(c).body = FirstAttempt(c).body
            /\ Retry(c).body = data[c]

\* a create_product whose caller gave neither uuids nor vatPercentage has
\* been dispatched twice, at two clock readings, with the generated values
C26_Witness ==
    \E c \in Threads :
        /\ Redispatched(c) /\ req[c] = "create_product"
        /\ pc[c] = "redispatched" /\ SentinelFirst(c)
        /\ Retry(c).verb = "POST"
        /\ FirstAttempt(c).body.uuid.time > 0
        /\ FirstAttempt(c).body.uuid.time < now
        /\ FirstAttempt(c).body.variant_uuid # FirstAttempt(c).body.uuid
        /\ FirstAttempt(c).body.vatPercentage = "0"
        /\ Retry(c).body.uuid = FirstAttempt(c).body.uuid
        /\ Retry(c).body.variant_uuid = FirstAttempt(c).body.variant_uuid

\* ---------------------------------------------------------------------- C27
\* the grants c's call sent before its first dispatch
GrantsBeforeFirstDispatch(s) == {i \in Grants(s) : i < FirstDispatch(s)}

\* C27: a resource call has sent at most two token grants, at most one of
\* them before its first dispatch (the pre-check) and at most one after it
\* (the 401 with the sentinel), and at most two resource requests, whatever
\* the answers were.
C27_AtMostTwoOfEach ==
    \A c \in Threads :
        InResourceCall(c) =>
            /\ Cardinality(Grants(sent[c])) <= 2
            /\ Cardinality(Resources(sent[c])) <= 2
            /\ Cardinality(GrantsBeforeFirstDispatch(sent[c])) <= 1
            /\ Cardinality(GrantsAfterFirstDispatch(sent[c])) <= 1
            /\ Len(sent[c]) <= 4

\* a call has ended after two grants and two dispatches, both dispatches
\* answered 401 with the sentinel
C27_Witness ==
    \E c \in Threads :
        /\ InResourceCall(c) /\ pc[c] = "done"
        /\ Cardinality(Grants(sent[c])) = 2
        /\ Cardinality(Resources(sent[c])) = 2
        /\ SentinelFirst(c)
        /\ last_resp[c].status = StatusUnauthorized
        /\ Has(last_resp[c], "errorType")
        /\ last_resp[c].errorType = Sentinel

\* ---------------------------------------------------------------------- C28
\* this step is a run of auth()'s body, in a call or in the constructor
AnyAuthStep == auth_obs'.ran /\ (pc' # pc \/ mgr' # mgr)

\* C28: a run of auth() whose grant the token endpoint answers with a status
\* other than 200 leaves the access token, the refresh token, the expiry
\* instant and the request headers as they were, and raises the
\* authentication error made from that answer.
C28_RefusedAuthFrame ==
    [][ (AnyAuthStep /\ auth_obs'.resp.status # StatusOK) =>
            /\ token' = token
            /\ refresh_token' = refresh_token
            /\ session_valid_until' = session_valid_until
            /\ headers' = headers
            /\ auth_obs'.exc = RequestException(AuthFailedMsg, auth_obs'.resp)
      ]_vars

\* a grant of a constructed manager has just been refused, and the four
\* stored values are those of the last grant that was accepted
C28_Witness ==
    /\ mgr = "ready" /\ AuthJustFailed
    /\ auth_obs.resp.status # StatusOK
    /\ token = auth_token /\ headers = auth_token
    /\ refresh_token = auth_obs.grant.refresh_token
    /\ session_valid_until = auth_time + auth_lifetime - SafetyMargin
    /\ auth_time < now

\* ---------------------------------------------------------------------- C29
\* the grants c has sent that carry the password pair
PasswordGrants(s) ==
    {i \in Grants(s) :
        \/ s[i].grant_type # "refresh_token"
        \/ \E p \in s[i].form : p[1] \in {"username", "password"}}

\* C29: a constructed manager holds a refresh token at all times, also after
\* refused grants; every grant a call of it has sent is a refresh grant that
\* carries a refresh token and neither username nor password; and a call
\* whose grant was refused has ended with the authentication error, the
\* refresh token that was refused still stored.
C29_RefreshOnly ==
    mgr = "ready" =>
        /\ refresh_token \in RefreshTokens
        /\ \A c \in Threads :
             /\ PasswordGrants(sent[c]) = {}
             /\ \A i \in Grants(sent[c]) :
                  /\ sent[c][i].refresh_token \in RefreshTokens
                  /\ <<"refresh_token", sent[c][i].refresh_token>>
                        \in sent[c][i].form
             /\ ( /\ pc[c] = "done" /\ AuthJustFailed
                  /\ auth_obs.resp.status # StatusOK ) =>
                    /\ result[c] = RequestException(AuthFailedMsg,
                                                    auth_obs.resp)
                    /\ refresh_token = auth_obs.grant.refresh_token

\* after a refused grant, a later call has sent a refresh grant again, with
\* the refresh token that is still stored
C29_Witness ==
    \E c \in Threads :
        /\ AwaitsGrant(c) /\ auth_exc = "RequestException"
        /\ auth_time < call_obs[c].time
        /\ Len(sent[c]) = 1
        /\ sent[c][1].grant_type = "refresh_token"
        /\ sent[c][1].refresh_token = refresh_token

\* ---------------------------------------------------------------------- C30
\* C30: the refresh token changes in authenticates that succeed, and only in
\* those: a run of auth() that returns stores the refresh token of its grant
\* response, a run that raises leaves the stored one, so that the refresh
\* token a later grant reads is the one of the last authenticate that
\* succeeded.
C30_RefreshTokenOfLastSuccess ==
    [][ AnyAuthStep =>
            refresh_token' = IF auth_obs'.exc.kind = "none"
                             THEN auth_obs'.resp.refresh_token
                             ELSE refresh_token
      ]_vars
====
